---- MODULE Spec2Model ----
(***************************************************************************)
(* Model of flamedisx/inference.py: the Objective evaluation engine        *)
(* (memoized, NaN- and bounds-guarded), its minimize() protocol, and the   *)
(* IntervalObjective reformulation.                                        *)
(*                                                                         *)
(* Numbers are exact: a number is a record [k, n, d, en, ed] with          *)
(* k = "fin" for n/d + (en/ed) * 1e-9, both fractions in lowest terms,     *)
(* k = "nan" for NaN and k = "inf" for +infinity.  The 1e-9 part keeps     *)
(* LOWER_RATE_MULTIPLIER_BOUND exact within TLC's 32-bit integers.         *)
(* Structural equality (=) is bit-identity; NumEq is the == of the source, *)
(* under which NaN differs from itself.                                    *)
(***************************************************************************)
EXTENDS Integers, Sequences, FiniteSets, TLC

VARIABLES
    cfg,      \* the Objective instance's attributes set by __init__
    pc,       \* "running", or how minimize() ended: "returned", "raised"
    cache,    \* self._cache
    history,  \* self._history
    calls,    \* log of the __call__ calls made so far and what each did
    raw,      \* the backend's raw result
    ret,      \* what minimize() returned
    diags,    \* the warnings minimize() emitted
    caller,   \* the bounds and optimizer_kwargs objects the caller holds
    objs      \* the Objectives the caller built from them, in order

vars == <<cfg, pc, cache, history, calls, raw, ret, diags, caller, objs>>

-----------------------------------------------------------------------------
(* Bounds of the model *)

\* evaluate calls made on one Objective instance
MaxCalls == 2

\* Objectives one caller builds from the same mappings
MaxObjectives == 2

-----------------------------------------------------------------------------
(* Exact arithmetic *)

Abs(i) == IF i < 0 THEN -i ELSE i

RECURSIVE Gcd(_, _)
Gcd(a, b) == IF b = 0 THEN a ELSE Gcd(b, a % b)

\* the rational n/d, d # 0, as a pair in lowest terms, denominator positive
Q(n, d) ==
    LET g == Gcd(Abs(n), Abs(d))
        s == IF d < 0 THEN -1 ELSE 1
    IN <<(s * n) \div g, (s * d) \div g>>

QAdd(p, q) == Q(p[1] * q[2] + q[1] * p[2], p[2] * q[2])

QNeg(p) == <<-p[1], p[2]>>

QMul(p, q) == Q(p[1] * q[1], p[2] * q[2])

QDiv(p, q) == Q(p[1] * q[2], p[2] * q[1])

\* 1e-9 is one part in NanoPerUnit
NanoPerUnit == 1000000000

\* the finite number p + e * 1e-9, for rationals p and e
Mk(p, e) == [k |-> "fin", n |-> p[1], d |-> p[2], en |-> e[1], ed |-> e[2]]

\* the parts of a finite number
Main(a) == <<a.n, a.d>>

Nano(a) == <<a.en, a.ed>>

Fin(n, d) == Mk(Q(n, d), <<0, 1>>)

Num(i) == Mk(<<i, 1>>, <<0, 1>>)

NaN == [k |-> "nan", n |-> 0, d |-> 1, en |-> 0, ed |-> 1]

Inf == [k |-> "inf", n |-> 1, d |-> 1, en |-> 0, ed |-> 1]

\* np.isnan
IsNaN(v) == v.k = "nan"

\* a == b of the source (IEEE: NaN equals nothing)
NumEq(a, b) == ~IsNaN(a) /\ ~IsNaN(b) /\ a = b

\* +, -, *, / (by a nonzero number) of the source, on finite numbers and
\* NaN: NaN propagates.  A product has at most one factor with a 1e-9 part,
\* a quotient a divisor without one.
NumAdd(a, b) ==
    IF IsNaN(a) \/ IsNaN(b) THEN NaN
    ELSE Mk(QAdd(Main(a), Main(b)), QAdd(Nano(a), Nano(b)))

NumSub(a, b) ==
    IF IsNaN(a) \/ IsNaN(b) THEN NaN
    ELSE Mk(QAdd(Main(a), QNeg(Main(b))), QAdd(Nano(a), QNeg(Nano(b))))

NumMul(a, b) ==
    IF IsNaN(a) \/ IsNaN(b) THEN NaN
    ELSE Mk(QMul(Main(a), Main(b)),
            QAdd(QMul(Main(a), Nano(b)), QMul(Nano(a), Main(b))))

NumDiv(a, b) ==
    IF IsNaN(a) \/ IsNaN(b) THEN NaN
    ELSE Mk(QDiv(Main(a), Main(b)), QDiv(Nano(a), Main(b)))

\* the sign of a finite number: that of X * NanoPerUnit + Y for the integers
\* X = n * ed and Y = en * d, found without forming the product
NumSign(a) ==
    LET X == a.n * a.ed
        Y == a.en * a.d
        hi == X + (Y \div NanoPerUnit)
        lo == Y % NanoPerUnit
    IN IF hi > 0 THEN 1
       ELSE IF hi < 0 THEN -1
            ELSE IF lo > 0 THEN 1 ELSE 0

\* a <= b of the source (IEEE: any comparison with NaN is false)
NumLe(a, b) ==
    /\ ~IsNaN(a)
    /\ ~IsNaN(b)
    /\ \/ b.k = "inf"
       \/ a.k = "fin" /\ b.k = "fin" /\ NumSign(NumSub(b, a)) >= 0

\* a < b of the source
NumLt(a, b) == NumLe(a, b) /\ a # b

\* abs(a)
NumAbs(a) == IF NumSign(a) < 0 THEN NumSub(Num(0), a) ELSE a

ISqrt(i) == CHOOSE r \in 0..i : r * r = i

\* v ** 0.5, for the squares of rationals
NumSqrt(v) == Fin(ISqrt(v.n), ISqrt(v.d))

\* min(a, b) and max(a, b) of Python: a, unless b compares beyond it
PyMin(a, b) == IF NumLt(b, a) THEN b ELSE a

PyMax(a, b) == IF NumLt(a, b) THEN b ELSE a

\* None of the source: an absent bound
None == [k |-> "none", n |-> 0, d |-> 1, en |-> 0, ed |-> 1]

-----------------------------------------------------------------------------
(* The likelihood collaborator's parameters and the values of the model *)

\* lf.param_names: the likelihood's full, ordered parameter list
ParamNames == <<"a", "s_rate_multiplier">>

\* p.endswith('_rate_multiplier')
IsRateMultiplier(p) == p \in {"s_rate_multiplier"}

LOWER_RATE_MULTIPLIER_BOUND == Mk(<<0, 1>>, <<1, 1>>)

\* values an optimizer may request for a parameter
Vals == {NaN, Num(0), LOWER_RATE_MULTIPLIER_BOUND}

\* values of a guess and of a backend's final position
PointVals == {LOWER_RATE_MULTIPLIER_BOUND, Num(2)}

Range(s) == {s[i] : i \in 1..Len(s)}

IndexOf(s, e) == CHOOSE i \in 1..Len(s) : s[i] = e

Min(S) == CHOOSE i \in S : \A j \in S : i <= j

\* _dict_to_array(x): the values of the fitted parameters, in order
DictToArray(arg_names, x) == [i \in 1..Len(arg_names) |-> x[arg_names[i]]]

\* all vectors of length n over S
Vectors(n, S) == [1..n -> S]

EmptyMap == [k \in {} |-> NaN]

-----------------------------------------------------------------------------
(* Objective.__init__ *)

\* self.arg_names: the fitted parameters, in the likelihood's order
ArgNames(param_names, fix) ==
    SelectSeq(param_names, LAMBDA k : k \notin DOMAIN fix)

\* the keys of fix, in order
FixKeys(param_names, fix) ==
    SelectSeq(param_names, LAMBDA k : k \in DOMAIN fix)

\* self.guess = {**guess, **fix}
MergeGuess(guess, fix) ==
    [k \in DOMAIN guess \cup DOMAIN fix |->
        IF k \in DOMAIN fix THEN fix[k] ELSE guess[k]]

\* bounds.setdefault(p, (LOWER_RATE_MULTIPLIER_BOUND, None)) for every fitted
\* rate multiplier
DefaultBounds(bounds, arg_names) ==
    LET defaulted == {p \in Range(arg_names) : IsRateMultiplier(p)}
    IN [p \in DOMAIN bounds \cup defaulted |->
           IF p \in DOMAIN bounds THEN bounds[p]
           ELSE <<LOWER_RATE_MULTIPLIER_BOUND, None>>]

\* the class attribute memoize: True, but False for TensorFlowObjective
Memoize(backend) == backend # "tfp"

\* the instance Objective.__init__ leaves behind
NewObjective(param_names, backend, guess, fix, bounds, lowlevel, hist, allow) ==
    LET arg_names == ArgNames(param_names, fix)
    IN [kind |-> "base",
        param_names |-> param_names,
        backend |-> backend,
        guess |-> MergeGuess(guess, fix),
        fix |-> fix,
        llr_tolerance |-> Fin(1, 20),
        absolute_ftol |-> Fin(1, 20),
        nan_val |-> Inf,
        get_lowlevel_result |-> lowlevel,
        return_history |-> hist,
        allow_failure |-> allow,
        arg_names |-> arg_names,
        bounds |-> DefaultBounds(bounds, arg_names)]

\* Objective._inner_fun_and_grad: lf.minus_ll(**params, omit_grads=fix keys);
\* out is what the likelihood answers
InnerFunAndGrad(c, params, out) ==
    [params |-> params, omit_grads |-> DOMAIN c.fix,
     y |-> out.y, grad |-> out.grad]

-----------------------------------------------------------------------------
(* IntervalObjective *)

\* IntervalObjective._offset
Offset == 1

\* fd.wilks_crit(critical_quantile): the critical value of the likelihood
\* ratio; a rational stand-in whose double is a square
WilksCrit(critical_quantile) == Num(2)

\* the likelihood's gradient vector for the per-parameter slopes g: one
\* component per parameter that is not omitted, in the likelihood's order
LfGradient(param_names, omit_grads, g) ==
    LET kept == SelectSeq(param_names, LAMBDA k : k \notin omit_grads)
    IN [i \in 1..Len(kept) |-> g[kept[i]]]

\* t_ppf(x) and t_ppf_grad(x): the asymptotic critical value
TPpf(c, x) == WilksCrit(c.critical_quantile)

TPpfGrad(c, x) == Num(0)

\* the derived target-parameter guess, lines 439-459
DerivedGuess(target, bestfit_tp, direction, critical_quantile, sigma_guess, slope) ==
    LET dy == WilksCrit(critical_quantile)
        dx_1 == NumMul(NumSqrt(NumMul(Num(2), dy)), NumAbs(sigma_guess))
        dx_2 == IF NumEq(slope, Num(0)) THEN Inf
                ELSE NumAbs(NumDiv(dy, slope))
        dx == PyMin(dx_1, dx_2)
        tp_guess == PyMax(LOWER_RATE_MULTIPLIER_BOUND,
                          NumAdd(bestfit_tp, NumMul(Num(direction), dx)))
    IN IF IsRateMultiplier(target)
       THEN PyMax(tp_guess, LOWER_RATE_MULTIPLIER_BOUND)
       ELSE tp_guess

\* the asserts that the guess is in bounds, lines 464-468
GuessInBounds(bounds, target, tp_guess) ==
    LET b == IF target \in DOMAIN bounds THEN bounds[target]
             ELSE <<None, None>>
    IN /\ b[1] # None => NumLe(b[1], tp_guess)
       /\ b[2] # None => NumLe(tp_guess, b[2])

\* {**bestfit, **{self.target_parameter: tp_guess}, **self.guess}
IntervalGuess(bestfit, target, tp_guess, guess) ==
    [k \in DOMAIN bestfit \cup {target} \cup DOMAIN guess |->
        IF k \in DOMAIN guess THEN guess[k]
        ELSE IF k = target THEN tp_guess ELSE bestfit[k]]

\* IntervalObjective.__init__ on the instance base that Objective.__init__
\* left; best is the likelihood's answer at the bestfit.  error names the
\* exception that ends the construction, if any.
NewIntervalObjective(base, target, bestfit, direction, critical_quantile, tol_multiplier, sigma_guess, best) ==
    LET inner == InnerFunAndGrad(base, bestfit, best)
        slot == IndexOf(base.param_names, target)
    IN IF slot > Len(inner.grad)
       THEN [kind |-> "interval", error |-> "IndexError"]
       ELSE
       LET slope == inner.grad[slot]
           derived == target \notin DOMAIN base.guess
           tp_guess == IF derived
                       THEN DerivedGuess(target, bestfit[target], direction,
                                         critical_quantile, sigma_guess, slope)
                       ELSE base.guess[target]
       IN IF ~GuessInBounds(base.bounds, target, tp_guess)
          THEN [kind |-> "interval", error |-> "AssertionError"]
          ELSE [base EXCEPT
                   !.kind = "interval",
                   !.guess = IntervalGuess(bestfit, target, tp_guess,
                                           base.guess),
                   !.absolute_ftol =
                       NumMul(tol_multiplier,
                              NumMul(base.llr_tolerance, base.llr_tolerance))]
               @@ [error |-> "none",
                   target_parameter |-> target,
                   bestfit |-> bestfit,
                   direction |-> direction,
                   critical_quantile |-> critical_quantile,
                   tol_multiplier |-> tol_multiplier,
                   sigma_guess |-> sigma_guess,
                   tilt |-> NumMul(Num(4), NumMul(base.llr_tolerance,
                                                  critical_quantile)),
                   bestfit_tp |-> bestfit[target],
                   m2ll_best |-> inner.y,
                   grad_at_bestfit |-> inner.grad,
                   bestfit_tp_slope |-> slope,
                   guess_derived |-> derived]

\* IntervalObjective._inner_fun_and_grad
IntervalInnerFunAndGrad(c, params, out) ==
    LET x == params[c.target_parameter]
        x_norm == NumDiv(NumSub(x, c.bestfit_tp), c.sigma_guess)
        super == InnerFunAndGrad(c, params, out)
        diff == NumSub(NumSub(super.y, c.m2ll_best), TPpf(c, x))
        fun == NumAdd(NumMul(diff, diff),
                      NumMul(NumMul(Num(-c.direction), c.tilt), x_norm))
        extra_grad == NumDiv(NumMul(Num(-c.direction), c.tilt), c.sigma_guess)
        slot == IndexOf(c.arg_names, c.target_parameter)
        grad == [i \in 1..Len(super.grad) |->
                    LET g == NumMul(NumMul(Num(2), diff),
                                    NumSub(super.grad[i], TPpfGrad(c, x)))
                    IN IF i = slot THEN NumAdd(g, extra_grad) ELSE g]
    IN [params |-> params, omit_grads |-> super.omit_grads,
        y |-> NumAdd(fun, Num(Offset)), grad |-> grad]

\* IntervalObjective.absolute_to_relative_tol
AbsoluteToRelativeTol(c, llr_tolerance) == NumDiv(llr_tolerance, Num(Offset))

\* self._inner_fun_and_grad(params), by the class of the instance
InnerOf(c, params, out) ==
    IF c.kind = "interval" THEN IntervalInnerFunAndGrad(c, params, out)
    ELSE InnerFunAndGrad(c, params, out)

-----------------------------------------------------------------------------
(* Objective.__call__ *)

\* _array_to_dict(x) merged with fix: {**self._array_to_dict(x), **self.fix}
Params(c, x) ==
    [k \in Range(c.arg_names) \cup DOMAIN c.fix |->
        IF k \in DOMAIN c.fix THEN c.fix[k] ELSE x[IndexOf(c.arg_names, k)]]

\* the order in which params.items() is walked
ParamOrder(c) == c.arg_names \o FixKeys(c.param_names, c.fix)

\* nan_result()
NanResult(c) ==
    [fun |-> c.nan_val, grad |-> [i \in 1..Len(c.arg_names) |-> NaN]]

\* the upper bound taken as closed
InBounds_ClosedUpper(b, v) ==
    /\ b[1] = None \/ NumLe(b[1], v)
    /\ b[2] = None \/ NumLe(v, b[2])

\* (b[0] is None or b[0] <= v) and (b[1] is None or v < b[1])
InBounds(b, v) ==
    /\ b[1] = None \/ NumLe(b[1], v)
    /\ b[2] = None \/ NumLt(v, b[2])

\* what the validity loop finds for one parameter
ParamFault(c, k, v) ==
    IF IsNaN(v) THEN "nan_param"
    ELSE IF k \in DOMAIN c.bounds /\ ~InBounds(c.bounds[k], v)
         THEN "out_of_bounds"
         ELSE "ok"

\* the validity loop: the first offending parameter ends the call
GuardFault(c, params) ==
    LET order == ParamOrder(c)
        bad == {i \in 1..Len(order) :
                   ParamFault(c, order[i], params[order[i]]) # "ok"}
    IN IF bad = {} THEN "ok"
       ELSE ParamFault(c, order[Min(bad)], params[order[Min(bad)]])

\* a cache that is never consulted
CacheHit_Never(c, cch, x) == FALSE

\* memkey in self._cache: tuple equality is component-wise ==
CacheHit(c, cch, x) ==
    /\ Memoize(c.backend)
    /\ \E key \in DOMAIN cch :
          \A i \in 1..Len(x) : NumEq(key[i], x[i])

\* the result packaged from the likelihood's answer
PackResult(c, y, grad) ==
    IF IsNaN(y) THEN [res |-> NanResult(c), warn |-> "nan_objective"]
    ELSE IF \E i \in 1..Len(grad) : IsNaN(grad[i])
         THEN [res |-> NanResult(c), warn |-> "nan_gradient"]
         ELSE [res |-> [fun |-> y, grad |-> grad], warn |-> "none"]

\* a history that records only the evaluations with a usable value
HistoryAppend_OnlyValid(c, h, params, y, grad) ==
    IF c.return_history /\ ~IsNaN(y)
    THEN Append(h, [params |-> params, y |-> y, grad |-> grad])
    ELSE h

\* self._history.append(dict(params=params, y=y, grad=grad))
HistoryAppend(c, h, params, y, grad) ==
    IF c.return_history
    THEN Append(h, [params |-> params, y |-> y, grad |-> grad])
    ELSE h

\* self._cache[memkey] = result
CacheStore(c, cch, x, res) ==
    IF Memoize(c.backend)
    THEN [key \in DOMAIN cch \cup {x} |-> IF key = x THEN res ELSE cch[key]]
    ELSE cch

\* one whole __call__(x): the result, and what the call did
Evaluate(c, cch, h, x, out) ==
    IF CacheHit(c, cch, x)
    THEN [res |-> cch[x], hit |-> TRUE, invoked |-> FALSE, warn |-> "none",
          omit |-> {}, cache |-> cch, history |-> h]
    ELSE LET params == Params(c, x)
             fault == GuardFault(c, params)
         IN IF fault # "ok"
            THEN [res |-> NanResult(c), hit |-> FALSE, invoked |-> FALSE,
                  warn |-> fault, omit |-> {}, cache |-> cch, history |-> h]
            ELSE LET inner == InnerOf(c, params, out)
                     packed == PackResult(c, inner.y, inner.grad)
                 IN [res |-> packed.res, hit |-> FALSE, invoked |-> TRUE,
                     warn |-> packed.warn, omit |-> inner.omit_grads,
                     cache |-> CacheStore(c, cch, x, packed.res),
                     history |->
                         HistoryAppend(c, h, params, inner.y, inner.grad)]

-----------------------------------------------------------------------------
(* Objective.minimize, parse_result and fail *)

\* whether the backend's raw result reports convergence: result.success
\* (scipy), not result.failed (tfp), result.migrad_ok() (minuit)
Converged(c, r) == r.ok

\* the message parse_result hands to fail
FailMessage(c, r) ==
    IF c.backend = "scipy" THEN "Scipy optimizer failed"
    ELSE IF c.backend = "tfp" THEN "TFP optimizer failed!"
         ELSE "Migrad failed!"

\* a failure policy that only ever warns
Fail_NeverRaises(c, message) ==
    [raised |-> FALSE, diag |-> [type |-> "failure", k |-> message]]

\* fail(message): warn if allow_failure, raise otherwise
Fail(c, message) ==
    IF c.allow_failure
    THEN [raised |-> FALSE, diag |-> [type |-> "failure", k |-> message]]
    ELSE [raised |-> TRUE, diag |-> [type |-> "none", k |-> ""]]

\* dict(zip(self.arg_names, result.x))
Position(c, r) ==
    [k \in Range(c.arg_names) |-> r.x[IndexOf(c.arg_names, k)]]

\* parse_result(result): the failure policy's outcome and the parsed mapping
ParseResult(c, r) ==
    LET f == IF Converged(c, r)
             THEN [raised |-> FALSE, diag |-> [type |-> "none", k |-> ""]]
             ELSE Fail(c, FailMessage(c, r))
    IN [raised |-> f.raised,
        diags |-> IF f.diag.type = "none" THEN {} ELSE {f.diag},
        result |-> Position(c, r)]

\* a comparison loop that reports nothing
GuessWarnings_Silent(c, result) == {}

\* the loop comparing the result against the guess
GuessWarnings(c, result) ==
    {[type |-> "equal_guess", k |-> k] :
        k \in {k \in DOMAIN result : NumEq(c.guess[k], result[k])}}

\* a result that is returned without the fixed values
MergeFix_Dropped(result, fix) == result

\* {**result, **self.fix}
MergeFix(result, fix) ==
    [k \in DOMAIN result \cup DOMAIN fix |->
        IF k \in DOMAIN fix THEN fix[k] ELSE result[k]]

\* minimize() from the return of _minimize() on: what it returns or raises
MinimizeOutcome(c, r) ==
    IF c.get_lowlevel_result
    THEN [kind |-> "raw", map |-> EmptyMap, diags |-> {}]
    ELSE IF c.return_history
    THEN [kind |-> "history", map |-> EmptyMap, diags |-> {}]
    ELSE LET parsed == ParseResult(c, r)
         IN IF parsed.raised
            THEN [kind |-> "raised", map |-> EmptyMap, diags |-> {}]
            ELSE [kind |-> "mapping",
                  map |-> MergeFix(parsed.result, c.fix),
                  diags |-> parsed.diags
                              \cup GuessWarnings(c, parsed.result)]

-----------------------------------------------------------------------------
(* The Objective as a state machine *)

\* caller-supplied fix mappings
FixChoices ==
    { EmptyMap,
      [k \in {"a"} |-> LOWER_RATE_MULTIPLIER_BOUND],
      [k \in {"a"} |-> NaN],
      [k \in {"s_rate_multiplier"} |-> Num(0)] }

\* caller-supplied bounds mappings
BoundsChoices ==
    { [k \in {} |-> <<None, None>>],
      [k \in {"a"} |-> <<Num(0), LOWER_RATE_MULTIPLIER_BOUND>>],
      [k \in {"s_rate_multiplier"} |-> <<None, LOWER_RATE_MULTIPLIER_BOUND>>] }

Backends == {"scipy", "tfp", "minuit"}

\* answers of the likelihood collaborator for n fitted parameters
LfOutputs(n) ==
    { [y |-> Num(1), grad |-> [i \in 1..n |-> Num(0)]],
      [y |-> NaN, grad |-> [i \in 1..n |-> Num(0)]],
      [y |-> Num(3), grad |-> [i \in 1..n |-> NaN]] }

NoRaw == [ok |-> FALSE, x |-> <<>>]

\* a caller that keeps no mapping of its own: bounds=None,
\* optimizer_kwargs=None
NoCaller ==
    [backend |-> "none",
     bounds_given |-> FALSE, bounds |-> [k \in {} |-> <<None, None>>],
     kwargs_given |-> FALSE, kwargs |-> [k \in {} |-> None],
     bounds0 |-> [k \in {} |-> <<None, None>>],
     kwargs0 |-> [k \in {} |-> None]]

\* everything but the instance's configuration, right after construction
Fresh ==
    /\ pc = "running"
    /\ cache = [key \in {} |-> [fun |-> NaN, grad |-> <<>>]]
    /\ history = <<>>
    /\ calls = <<>>
    /\ raw = NoRaw
    /\ ret = [kind |-> "none", map |-> EmptyMap]
    /\ diags = {}
    /\ caller = NoCaller
    /\ objs = <<>>

\* an Objective built with any minimize() options, default bounds
Init ==
    /\ \E backend \in Backends, fix \in FixChoices,
          lowlevel \in BOOLEAN, hist \in BOOLEAN, allow \in BOOLEAN :
          \E guess \in [Range(ArgNames(ParamNames, fix)) -> PointVals] :
             cfg = NewObjective(ParamNames, backend, guess, fix,
                                [k \in {} |-> <<None, None>>],
                                lowlevel, hist, allow)
    /\ Fresh

\* an Objective built with any bounds, failure not allowed
InitEval ==
    /\ \E backend \in Backends, fix \in FixChoices, bounds \in BoundsChoices,
          lowlevel \in BOOLEAN, hist \in BOOLEAN :
          cfg = NewObjective(ParamNames, backend,
                             [k \in Range(ArgNames(ParamNames, fix)) |-> Num(2)],
                             fix, bounds, lowlevel, hist, FALSE)
    /\ Fresh

\* the optimizer (or a caller) evaluates the objective at x; out is what the
\* likelihood would answer
Call ==
    /\ pc = "running"
    /\ Len(calls) < MaxCalls
    /\ \E x \in Vectors(Len(cfg.arg_names), Vals),
          out \in LfOutputs(Len(cfg.arg_names)) :
          LET e == Evaluate(cfg, cache, history, x, out)
          IN /\ cache' = e.cache
             /\ history' = e.history
             /\ calls' = Append(calls,
                    [x |-> x, res |-> e.res, hit |-> e.hit,
                     invoked |-> e.invoked, warn |-> e.warn, omit |-> e.omit,
                     out |-> IF e.invoked THEN out
                             ELSE [y |-> NaN, grad |-> <<>>]])
    /\ UNCHANGED <<cfg, pc, raw, ret, diags, caller, objs>>

\* _minimize() returns the backend's raw result r and minimize() finishes
Minimize ==
    /\ pc = "running"
    /\ \E ok \in BOOLEAN, x \in Vectors(Len(cfg.arg_names), PointVals) :
          LET r == [ok |-> ok, x |-> x]
              o == MinimizeOutcome(cfg, r)
          IN /\ raw' = r
             /\ ret' = [kind |-> o.kind, map |-> o.map]
             /\ diags' = o.diags
             /\ pc' = IF o.kind = "raised" THEN "raised" ELSE "returned"
    /\ UNCHANGED <<cfg, cache, history, calls, caller, objs>>

Next == Call \/ Minimize

Spec == Init /\ [][Next]_vars

SpecEval == InitEval /\ [][Next]_vars

-----------------------------------------------------------------------------
(* The IntervalObjective as a state machine *)

\* the likelihood's parameters in the interval searches
IntervalParamNames == <<"a", "t", "s_rate_multiplier">>

\* the bestfit values of the target parameter
BestfitVals == {Num(-5), Num(3)}

SigmaVals == {Num(2), Fin(1, 2)}

\* the likelihood's slope at the bestfit, per parameter
SlopeVals == {Num(0), Num(1)}

\* caller-supplied bounds on the target parameter
TargetBounds(target) ==
    { [k \in {} |-> <<None, None>>],
      [k \in {target} |-> <<None, Num(5)>>],
      [k \in {target} |-> <<Num(0), Num(5)>>] }

\* caller-supplied partial guesses
TargetGuesses(target) == {EmptyMap, [k \in {target} |-> Num(5)]}

\* every IntervalObjective whose construction succeeds, for a bestfit that
\* lies within the bounds
InitInterval ==
    /\ \E target \in Range(IntervalParamNames), direction \in {1, -1},
          bestfit_tp \in BestfitVals, sigma_guess \in SigmaVals,
          g \in [Range(IntervalParamNames) -> SlopeVals],
          backend \in Backends :
          \E fixed \in SUBSET (Range(IntervalParamNames) \ {target}),
             bounds \in TargetBounds(target),
             guess \in TargetGuesses(target) :
             LET fix == [k \in fixed |-> Num(1)]
                 bestfit == [k \in Range(IntervalParamNames) |->
                               IF k = target THEN bestfit_tp ELSE Num(1)]
                 base == NewObjective(IntervalParamNames, backend, guess, fix,
                                      bounds, FALSE, FALSE, FALSE)
                 best == [y |-> Num(10),
                          grad |-> LfGradient(IntervalParamNames,
                                              DOMAIN fix, g)]
                 made == NewIntervalObjective(base, target, bestfit,
                                              direction, Fin(9, 10), Num(1),
                                              sigma_guess, best)
             IN /\ GuessInBounds(base.bounds, target, bestfit_tp)
                /\ made.error = "none"
                /\ cfg = made
    /\ Fresh

\* the answers of the likelihood at the point x: at the bestfit, what it
\* answered during construction; elsewhere, a value on the critical contour
\* or one above it
IntervalLfOutputs(c, x) ==
    IF Params(c, x) = c.bestfit
    THEN {[y |-> c.m2ll_best, grad |-> c.grad_at_bestfit]}
    ELSE {[y |-> NumAdd(c.m2ll_best,
                        NumAdd(WilksCrit(c.critical_quantile), Num(d))),
           grad |-> [i \in 1..Len(c.arg_names) |-> Num(1)]] : d \in {0, 1}}

\* the optimizer evaluates the interval objective, at its starting point
\* (the guess) or at the bestfit
IntervalCall ==
    /\ pc = "running"
    /\ Len(calls) < MaxCalls
    /\ \E x \in {DictToArray(cfg.arg_names, cfg.guess),
                  DictToArray(cfg.arg_names, cfg.bestfit)} :
          \E out \in IntervalLfOutputs(cfg, x) :
             LET e == Evaluate(cfg, cache, history, x, out)
             IN /\ cache' = e.cache
                /\ history' = e.history
                /\ calls' = Append(calls,
                       [x |-> x, res |-> e.res, hit |-> e.hit,
                        invoked |-> e.invoked, warn |-> e.warn,
                        omit |-> e.omit,
                        out |-> IF e.invoked THEN out
                                ELSE [y |-> NaN, grad |-> <<>>]])
    /\ UNCHANGED <<cfg, pc, raw, ret, diags, caller, objs>>

NextInterval == IntervalCall

SpecInterval == InitInterval /\ [][NextInterval]_vars

-----------------------------------------------------------------------------
(* The backends' _minimize(): the options each hands to its optimizer *)

\* the float c * 2^(q/4): the powers of two whose repeated square roots the
\* tolerance defaults take
Pow2(q) == [k |-> "pow2", q |-> q, c |-> Num(1)]

\* FLOAT32_EPS = np.finfo(np.float32).eps = 2^-23
FLOAT32_EPS == Pow2(4 * (-23))

\* v ** 0.5 of a power of two
PowSqrt(v) == [v EXCEPT !.q = v.q \div 2]

\* f * v
PowScale(f, v) == [v EXCEPT !.c = NumMul(f, v.c)]

\* np.maximum(a, b): NaN propagates
NpMaximum(a, b) ==
    IF IsNaN(a) \/ IsNaN(b) THEN NaN ELSE IF NumLt(a, b) THEN b ELSE a

\* d.setdefault(key, v), d[key] = v and del d[key] on a dict d
SetDefault(d, key, v) ==
    [x \in DOMAIN d \cup {key} |-> IF x \in DOMAIN d THEN d[x] ELSE v]

SetItem(d, key, v) == [x \in DOMAIN d \cup {key} |-> IF x = key THEN v ELSE d[x]]

DelItem(d, key) == [x \in DOMAIN d \ {key} |-> d[x]]

\* 'limit_' + param_name
LimitKey(param_name) ==
    CASE param_name = "a" -> "limit_a"
      [] param_name = "s_rate_multiplier" -> "limit_s_rate_multiplier"

\* ScipyObjective._minimize: kwargs is the dict self.optimizer_kwargs, bounds
\* the dict self.bounds; the dict as the method leaves it is what
\* scipy_optimize.minimize receives
ScipyMinimize(c, bounds, kwargs) ==
    LET k1 == SetDefault(kwargs, "method", "TNC")
        k2 == SetItem(k1, "bounds",
                  [i \in 1..Len(c.arg_names) |->
                      IF c.arg_names[i] \in DOMAIN bounds
                      THEN bounds[c.arg_names[i]] ELSE <<None, None>>])
        k3 == SetDefault(k2, "options", [x \in {} |-> None])
        o1 == IF c.absolute_ftol # None
              THEN SetDefault(k3.options, "ftol", c.absolute_ftol)
              ELSE k3.options
        o2 == SetDefault(o1, "accuracy", PowSqrt(FLOAT32_EPS))
        o3 == SetDefault(o2, "xtol", PowSqrt(FLOAT32_EPS))
        o4 == SetDefault(o3, "gtol",
                  PowScale(Fin(1, 100), PowSqrt(o3.accuracy)))
        k4 == SetItem(k3, "options", o4)
    IN [kwargs |-> k4,
        passed |-> SetItem(k4, "x0", DictToArray(c.arg_names, c.guess))]

\* Objective.relative_ftol_guess; y is the objective at the guess
RelativeFtolGuess(c, y) == NumAbs(NumDiv(c.absolute_ftol, y))

\* TensorFlowObjective._minimize
TensorFlowMinimize(c, kwargs, y) ==
    LET k1 == IF c.absolute_ftol # None
              THEN SetDefault(kwargs, "f_relative_tolerance",
                              RelativeFtolGuess(c, y))
              ELSE kwargs
    IN [kwargs |-> k1,
        passed |-> SetItem(k1, "initial_position",
                           DictToArray(c.arg_names, c.guess))]

\* MinuitObjective._minimize: what from_array_func receives, with the
\* precision handed to migrad and the tol set on the fit
MinuitMinimize(c, bounds, kwargs) ==
    LET x_guess == DictToArray(c.arg_names, c.guess)
        k1 == SetDefault(kwargs, "error",
                  [i \in 1..Len(x_guess) |->
                      NpMaximum(NumMul(x_guess[i], Fin(1, 10)),
                                Fin(1, 1000))])
        precision == IF "precision" \in DOMAIN k1 THEN k1["precision"]
                     ELSE FLOAT32_EPS
        k2 == IF "precision" \in DOMAIN k1 THEN DelItem(k1, "precision")
              ELSE k1
        limits == {LimitKey(p) : p \in DOMAIN bounds}
        k3 == [x \in DOMAIN k2 \cup limits |->
                  IF x \in DOMAIN k2 THEN k2[x]
                  ELSE bounds[CHOOSE p \in DOMAIN bounds : LimitKey(p) = x]]
        tol == IF c.absolute_ftol # None
               THEN NumDiv(c.absolute_ftol, Fin(1, 2000)) ELSE None
    IN [kwargs |-> k3,
        passed |-> [x \in DOMAIN k3 \cup {"x_guess", "name", "precision", "tol"} |->
                      CASE x = "x_guess" -> x_guess
                        [] x = "name" -> c.arg_names
                        [] x = "precision" -> precision
                        [] x = "tol" -> tol
                        [] OTHER -> k3[x]]]

\* self._minimize(), by class
BackendMinimize(c, bounds, kwargs, y) ==
    CASE c.backend = "scipy" -> ScipyMinimize(c, bounds, kwargs)
      [] c.backend = "tfp" -> TensorFlowMinimize(c, kwargs, y)
      [] c.backend = "minuit" -> MinuitMinimize(c, bounds, kwargs)

-----------------------------------------------------------------------------
(* One caller building several Objectives from the same mappings *)

\* dict()
EmptyKwargs == [k \in {} |-> None]

\* optimizer_kwargs a caller may write for a backend
KwargsChoices(backend) ==
    CASE backend = "scipy" ->
            { EmptyKwargs,
              [k \in {"method"} |-> "L-BFGS-B"],
              [k \in {"options"} |-> [x \in {"ftol"} |-> Fin(1, 100)]] }
      [] backend = "tfp" ->
            { EmptyKwargs,
              [k \in {"f_relative_tolerance"} |-> Fin(1, 100)] }
      [] backend = "minuit" ->
            { EmptyKwargs,
              [k \in {"precision"} |-> Pow2(4 * (-20))] }

\* fix mappings of the Objectives built from shared mappings
SharedFixChoices ==
    { EmptyMap,
      [k \in {"a"} |-> LOWER_RATE_MULTIPLIER_BOUND],
      [k \in {"s_rate_multiplier"} |-> Num(0)] }

\* llr_tolerance arguments
ToleranceChoices == {Fin(1, 20), Fin(1, 100)}

\* values of the objective at the guess, where _minimize() asks for it
GuessObjectiveVals(backend) ==
    IF backend = "tfp" THEN {Num(1), Num(2)} ELSE {Num(1)}

\* the caller picks a backend and writes, or leaves out, a bounds and an
\* optimizer_kwargs mapping; bounds0 and kwargs0 remember them as written
InitShared ==
    /\ \E backend \in Backends, bounds_given \in BOOLEAN,
          kwargs_given \in BOOLEAN, bounds \in BoundsChoices :
          \E kwargs \in KwargsChoices(backend) :
             /\ bounds_given \/ bounds = [k \in {} |-> <<None, None>>]
             /\ kwargs_given \/ kwargs = EmptyKwargs
             /\ caller = [backend |-> backend,
                          bounds_given |-> bounds_given, bounds |-> bounds,
                          kwargs_given |-> kwargs_given, kwargs |-> kwargs,
                          bounds0 |-> bounds, kwargs0 |-> kwargs]
    /\ objs = <<>>
    /\ cfg = [kind |-> "none"]
    /\ pc = "running"
    /\ cache = [key \in {} |-> [fun |-> NaN, grad |-> <<>>]]
    /\ history = <<>>
    /\ calls = <<>>
    /\ raw = NoRaw
    /\ ret = [kind |-> "none", map |-> EmptyMap]
    /\ diags = {}

\* Objective.__init__ with the caller's mappings: self.bounds and
\* self.optimizer_kwargs are the caller's own dicts when given, so the
\* setdefault calls write into them and into every instance that holds them
Build ==
    /\ Len(objs) < MaxObjectives
    /\ \E fix \in SharedFixChoices, llr_tolerance \in ToleranceChoices :
          \E guess \in [Range(ArgNames(ParamNames, fix)) -> PointVals] :
             LET made == NewObjective(ParamNames, caller.backend, guess, fix,
                                      caller.bounds, FALSE, FALSE, FALSE)
                 c == [made EXCEPT !.llr_tolerance = llr_tolerance,
                                   !.absolute_ftol = llr_tolerance]
                 o == [c |-> c,
                       optimizer_kwargs |-> caller.kwargs,
                       ran |-> FALSE, y |-> NaN, passed |-> EmptyKwargs]
             IN IF caller.bounds_given
                THEN /\ caller' = [caller EXCEPT !.bounds = c.bounds]
                     /\ objs' = Append(
                            [i \in 1..Len(objs) |->
                                [objs[i] EXCEPT !.c.bounds = c.bounds]], o)
                ELSE /\ caller' = caller
                     /\ objs' = Append(objs, o)
    /\ UNCHANGED <<cfg, pc, cache, history, calls, raw, ret, diags>>

\* _minimize() of one of the Objectives built: it completes the dict
\* self.optimizer_kwargs in place, which is the caller's when given
RunMinimize ==
    /\ \E i \in 1..Len(objs), y \in GuessObjectiveVals(caller.backend) :
          LET m == BackendMinimize(objs[i].c, objs[i].c.bounds,
                                   objs[i].optimizer_kwargs, y)
          IN /\ ~objs[i].ran
             /\ IF caller.kwargs_given
                THEN /\ caller' = [caller EXCEPT !.kwargs = m.kwargs]
                     /\ objs' = [j \in 1..Len(objs) |->
                           IF j = i
                           THEN [objs[j] EXCEPT !.optimizer_kwargs = m.kwargs,
                                                !.ran = TRUE, !.y = y,
                                                !.passed = m.passed]
                           ELSE [objs[j] EXCEPT
                                    !.optimizer_kwargs = m.kwargs]]
                ELSE /\ caller' = caller
                     /\ objs' = [objs EXCEPT
                                    ![i].optimizer_kwargs = m.kwargs,
                                    ![i].ran = TRUE, ![i].y = y,
                                    ![i].passed = m.passed]
    /\ UNCHANGED <<cfg, pc, cache, history, calls, raw, ret, diags>>

NextShared == Build \/ RunMinimize

SpecShared == InitShared /\ [][NextShared]_vars

-----------------------------------------------------------------------------
(* Properties of evaluation and of minimize() *)

\* the calls made on the vector of call i, up to and including call i
CallsOn(i) == {j \in 1..i : calls[j].x = calls[i].x}

\* the likelihood invocations made for the vector x
Invocations(x) == {i \in 1..Len(calls) : calls[i].x = x /\ calls[i].invoked}

\* the parameter mapping call i is about: the decoded vector plus fixed values
MergedParams(i) ==
    [k \in Range(cfg.arg_names) \cup DOMAIN cfg.fix |->
        IF k \in DOMAIN cfg.fix THEN cfg.fix[k]
        ELSE calls[i].x[IndexOf(cfg.arg_names, k)]]

\* the bound a parameter is subject to: the configured one, else the default
\* lower bound of a fitted rate multiplier, else none
BoundOf(k) ==
    IF k \in DOMAIN cfg.bounds THEN cfg.bounds[k]
    ELSE IF k \in Range(cfg.arg_names) /\ IsRateMultiplier(k)
         THEN <<LOWER_RATE_MULTIPLIER_BOUND, None>>
         ELSE <<None, None>>

\* v is below the lower bound or at/above the upper bound
OutOfRange(b, v) ==
    \/ b[1] # None /\ NumLt(v, b[1])
    \/ b[2] # None /\ NumLe(b[2], v)

\* the mapping holds a NaN or an out-of-range value
MustPoison(m) ==
    \E k \in DOMAIN m : IsNaN(m[k]) \/ OutOfRange(BoundOf(k), m[k])

\* value nan_val, gradient all-NaN of length len(arg_names)
IsPoisoned(r) ==
    /\ r.fun = cfg.nan_val
    /\ Len(r.grad) = Len(cfg.arg_names)
    /\ \A i \in 1..Len(r.grad) : IsNaN(r.grad[i])

\* C1: with memoization enabled, the likelihood is invoked at most once per
\* distinct evaluation vector, and every repeated evaluate call on a vector
\* returns the result first returned for that vector.
C1_Memoized ==
    Memoize(cfg.backend) =>
        \A i \in 1..Len(calls) :
            /\ Cardinality(Invocations(calls[i].x)) <= 1
            /\ calls[i].res = calls[Min(CallsOn(i))].res

\* a repeated call on a vector the likelihood answered, served from the cache
C1_Witness ==
    /\ Memoize(cfg.backend)
    /\ \E i \in 1..Len(calls) :
          /\ calls[i].hit
          /\ Min(CallsOn(i)) < i
          /\ calls[Min(CallsOn(i))].invoked

\* C2: an evaluate call whose merged parameter mapping holds a NaN, or a
\* bounded value below its lower bound or at/above its upper bound (the default
\* 1e-9 lower bound of a fitted rate multiplier included), returns the poisoned
\* result without invoking the likelihood; any other call that misses the cache
\* invokes the likelihood.
C2_Poisoning ==
    \A i \in 1..Len(calls) :
        /\ MustPoison(MergedParams(i)) =>
              IsPoisoned(calls[i].res) /\ ~calls[i].invoked
        /\ ~MustPoison(MergedParams(i)) /\ ~calls[i].hit => calls[i].invoked

\* a call poisoned for a value at its open upper bound, after a call inside
\* the bounds that reached the likelihood
C2_Witness ==
    \E i, j \in 1..Len(calls) :
        /\ calls[i].warn = "out_of_bounds"
        /\ \E k \in DOMAIN cfg.bounds :
              /\ cfg.bounds[k][2] # None
              /\ MergedParams(i)[k] = cfg.bounds[k][2]
        /\ ~MustPoison(MergedParams(j))
        /\ calls[j].invoked

ExpectedMap ==
    [k \in Range(cfg.arg_names) \cup DOMAIN cfg.fix |->
        IF k \in DOMAIN cfg.fix THEN cfg.fix[k]
        ELSE raw.x[IndexOf(cfg.arg_names, k)]]

HasFailureDiag == \E d \in diags : d.type = "failure"

\* C4 as stated: whenever the backend reports non-convergence, minimize()
\* raises if allow_failure is off and otherwise warns and returns the parsed
\* mapping merged with the fixed values.
C4_AsStated ==
    pc # "running" /\ ~raw.ok =>
        IF cfg.allow_failure
        THEN /\ pc = "returned"
             /\ HasFailureDiag
             /\ ret.kind = "mapping" /\ ret.map = ExpectedMap
        ELSE pc = "raised" /\ ret.kind = "raised"

\* C4 (amended): when the backend reports non-convergence and neither
\* get_lowlevel_result nor get_history is set, minimize() raises if
\* allow_failure is off, and otherwise warns, raises nothing and returns the
\* parsed mapping merged with the fixed values; with either option set it
\* returns the raw result or the history without raising or warning.
C4_FailurePolicy ==
    pc # "running" /\ ~raw.ok =>
        IF cfg.get_lowlevel_result \/ cfg.return_history
        THEN /\ pc = "returned"
             /\ ~HasFailureDiag
             /\ ret.kind \in {"raw", "history"}
        ELSE IF cfg.allow_failure
             THEN /\ pc = "returned"
                  /\ HasFailureDiag
                  /\ ret.kind = "mapping" /\ ret.map = ExpectedMap
             ELSE pc = "raised" /\ ret.kind = "raised"

\* a non-converged fit demoted to a warning and returned with a fixed value
C4_Witness ==
    /\ pc = "returned"
    /\ ~raw.ok
    /\ cfg.allow_failure
    /\ HasFailureDiag
    /\ ret.kind = "mapping"
    /\ DOMAIN cfg.fix # {}

\* C5: when the parsed result gives a fitted parameter exactly its guess
\* value, minimize() warns about that parameter and about no other, and
\* returns the result unchanged, merged with the fixed values.
C5_GuessDiagnostic ==
    ret.kind = "mapping" =>
        /\ \A k \in Range(cfg.arg_names) :
              ([type |-> "equal_guess", k |-> k] \in diags)
                  <=> NumEq(raw.x[IndexOf(cfg.arg_names, k)], cfg.guess[k])
        /\ ret.map = ExpectedMap

\* a returned result equal to the guess in one parameter and not in another
C5_Witness ==
    /\ ret.kind = "mapping"
    /\ \E k1, k2 \in Range(cfg.arg_names) :
          /\ [type |-> "equal_guess", k |-> k1] \in diags
          /\ ret.map[k1] = cfg.guess[k1]
          /\ [type |-> "equal_guess", k |-> k2] \notin diags
          /\ ret.map[k2] # cfg.guess[k2]

\* the history entries of the calls in S, in call order
RECURSIVE EntriesOf(_, _)
EntriesOf(n, S) ==
    IF n = 0 THEN <<>>
    ELSE IF n \in S
         THEN Append(EntriesOf(n - 1, S),
                     [params |-> MergedParams(n), y |-> calls[n].out.y,
                      grad |-> calls[n].out.grad])
         ELSE EntriesOf(n - 1, S)

\* what minimize() returns with the short-circuit options
ShortCircuit ==
    pc = "returned" =>
        /\ cfg.get_lowlevel_result => ret.kind = "raw"
        /\ cfg.return_history /\ ~cfg.get_lowlevel_result =>
              ret.kind = "history"

\* C6 as stated: with get_history, the history holds exactly one entry for
\* every evaluate call not answered from the cache, in call order, and
\* minimize() returns it (the raw result if get_lowlevel_result is set).
C6_AsStated ==
    cfg.return_history =>
        /\ Len(history) =
              Cardinality({i \in 1..Len(calls) : ~calls[i].hit})
        /\ ShortCircuit

\* C6 (amended): with get_history, the history holds exactly one
\* {parameters, value, gradient} entry for every evaluate call that invoked
\* the likelihood (neither answered from the cache nor poisoned by the
\* NaN/bounds guard), in call order, and minimize() returns it (the raw
\* result if get_lowlevel_result is set).
C6_History ==
    cfg.return_history =>
        /\ history =
              EntriesOf(Len(calls),
                        {i \in 1..Len(calls) : calls[i].invoked})
        /\ ShortCircuit

\* minimize() returned a history that holds a NaN-valued evaluation and
\* lacks the call the guard poisoned
C6_Witness ==
    /\ cfg.return_history
    /\ ret.kind = "history"
    /\ Len(history) = 1
    /\ IsNaN(history[1].y)
    /\ \E i \in 1..Len(calls) :
          ~calls[i].hit /\ ~calls[i].invoked

-----------------------------------------------------------------------------
(* Properties of the IntervalObjective *)

\* tolerances handed to absolute_to_relative_tol
TolVals == {Fin(1, 20), Num(1), Num(3)}

\* the residual of call i: (value - m2ll_best) - criticalValue(x)
Residual(i) ==
    NumSub(NumSub(calls[i].out.y, cfg.m2ll_best),
           WilksCrit(cfg.critical_quantile))

\* C7: the value _inner_fun_and_grad returns where the residual is zero is
\* exactly offset (= 1), and absolute_to_relative_tol(t) = t for every t.
C7_OffsetAtMinimum ==
    /\ \A i \in 1..Len(calls) :
          calls[i].invoked /\ Residual(i) = Num(0) =>
              calls[i].res.fun = Num(Offset)
    /\ \A t \in TolVals : AbsoluteToRelativeTol(cfg, t) = t

\* C8: the cached bestfit_tp_slope is the component of the bestfit gradient
\* (taken over the fitted parameters) that belongs to the target parameter,
\* the one _inner_fun_and_grad adds the tilt correction to.
C8_TargetSlope ==
    cfg.bestfit_tp_slope =
        cfg.grad_at_bestfit[IndexOf(cfg.arg_names, cfg.target_parameter)]

\* C9: a derived target-parameter guess lies on the side of the bestfit the
\* direction names: direction * (tp_guess - bestfit_tp) >= 0.
C9_GuessOnCorrectSide ==
    cfg.guess_derived =>
        NumLe(Num(0),
              NumMul(Num(cfg.direction),
                     NumSub(cfg.guess[cfg.target_parameter], cfg.bestfit_tp)))

\* C10: after a successful construction the target parameter's value in the
\* final guess satisfies the bound guard of evaluate (lower <= v < upper): no
\* evaluation at the guess point is bound-poisoned on account of the target
\* parameter.
C10_GuessPassesGuard ==
    \A i \in 1..Len(calls) :
        calls[i].x = DictToArray(cfg.arg_names, cfg.guess) =>
            ~(/\ calls[i].warn = "out_of_bounds"
              /\ OutOfRange(BoundOf(cfg.target_parameter),
                            cfg.guess[cfg.target_parameter]))

-----------------------------------------------------------------------------
(* Properties of Objectives built from the same mappings *)

\* the bounds table of the instance o, had it been built alone from the
\* caller's mappings as written
AloneBounds(o) == DefaultBounds(caller.bounds0, o.c.arg_names)

\* what its _minimize() would have handed to the backend then
AlonePassed(o) ==
    BackendMinimize([o.c EXCEPT !.bounds = AloneBounds(o)], AloneBounds(o),
                    caller.kwargs0, o.y).passed

\* the caller's bounds mapping is as the caller wrote it
BoundsUntouched == caller.bounds_given => caller.bounds = caller.bounds0

\* the caller's optimizer_kwargs mapping is as the caller wrote it
KwargsUntouched == caller.kwargs_given => caller.kwargs = caller.kwargs0

\* every instance has the bounds table, and hands its backend the options,
\* of an instance built alone
AsBuiltAlone ==
    \A i \in 1..Len(objs) :
        /\ objs[i].c.bounds = AloneBounds(objs[i])
        /\ objs[i].ran => objs[i].passed = AlonePassed(objs[i])

\* C11: building Objectives and running their _minimize() leaves the
\* caller-supplied bounds and optimizer_kwargs mappings unchanged, and every
\* Objective built from them has the bounds table and the backend options it
\* would have had if built alone.
C11_SelfContained == BoundsUntouched /\ KwargsUntouched /\ AsBuiltAlone

====
